---- MODULE Spec2Model ----
(***************************************************************************)
(* smooth-bevy-cameras: the exponential smoother of a LookTransform, the   *)
(* per-frame systems that drive it, and the CeilingProjection of the       *)
(* custom-projection example.                                              *)
(*                                                                         *)
(* f32 is modelled as a binary floating-point format with MantBits bits of *)
(* significand, round-to-nearest-even after every operation and gradual    *)
(* underflow at 2^-FracBits.  A value is the integer n standing for        *)
(* n / 2^FracBits.  Signed zeros, infinities and NaN are not modelled: the *)
(* inputs are finite and every result stays in range.                      *)
(***************************************************************************)
EXTENDS Integers, Sequences, FiniteSets, TLC

VARIABLES
    debug_assertions,  \* the build: TRUE when debug_assert! is compiled in
    panicked,          \* a debug assertion failed, the app is gone
    look_transform,    \* the camera's LookTransform component
    smoother,          \* Option<Smoother> component
    scene_transform,   \* the camera's Transform component
    proj,              \* Option<Projection> component
    orth,              \* Option<OrthographicProjection> component
    ceiling,           \* Option<CeilingProjection> component
    viewport,          \* Option<(width, height)> last handed to update
    pending            \* the systems of the current frame that have not run yet

vars == <<debug_assertions, panicked, look_transform, smoother, scene_transform,
          proj, orth, ceiling, viewport, pending>>

\* ---------------------------------------------------------------- bounds
MantBits == 3
FracBits == 3

\* ---------------------------------------------------------------- f32
RECURSIVE Pow2(_)
Pow2(n) == IF n = 0 THEN 1 ELSE 2 * Pow2(n - 1)

Unit == Pow2(FracBits)

Abs(x) == IF x < 0 THEN -x ELSE x

Sgn(x) == IF x < 0 THEN -1 ELSE 1

\* the spacing of the format around the magnitude a / den
RECURSIVE Quantum(_, _, _)
Quantum(a, den, q) ==
    IF a < Pow2(MantBits) * q * den THEN q ELSE Quantum(a, den, 2 * q)

RoundNearestEven(a, d) ==
    LET f == a \div d
        r == a % d
    IN  IF 2 * r < d THEN f
        ELSE IF 2 * r > d THEN f + 1
        ELSE IF f % 2 = 0 THEN f ELSE f + 1

\* the f32 nearest to num / den (den > 0)
Fl(num, den) ==
    LET a == Abs(num)
        q == Quantum(a, den, 1)
    IN  Sgn(num) * RoundNearestEven(a, den * q) * q

F32Add(a, b) == Fl(a + b, 1)
F32Sub(a, b) == Fl(a - b, 1)
F32Mul(a, b) == Fl(a * b, Unit)
F32Div(a, b) == Fl(Sgn(b) * a * Unit, Abs(b))
F32Neg(a) == -a

\* ---------------------------------------------------------------- Option, Vec3
None == <<>>
Some(x) == <<x>>
IsSome(o) == o # <<>>
Unwrap(o) == o[1]
UnwrapOr(o, d) == IF IsSome(o) THEN o[1] ELSE d

Vec3Add(a, b) == [i \in 1..3 |-> F32Add(a[i], b[i])]
Vec3Sub(a, b) == [i \in 1..3 |-> F32Sub(a[i], b[i])]
Vec3Scale(a, s) == [i \in 1..3 |-> F32Mul(a[i], s)]
Vec3Zero == <<0, 0, 0>>
Vec3Y == <<0, Unit, 0>>

\* ---------------------------------------------------------------- LookTransform
LookTransform(eye, target, up, scale) ==
    [eye |-> eye, target |-> target, up |-> up, scale |-> scale]

RECURSIVE Gcd(_, _)
Gcd(a, b) == IF b = 0 THEN a ELSE Gcd(b, a % b)

\* Vec3::normalize.  A rotation depends only on the ray of the look vector, so
\* the unit vector is represented by the ray's least integer vector; the zero
\* vector (normalize yields NaN) is kept as it is.
normalize(v) ==
    LET g == Gcd(Abs(v[1]), Gcd(Abs(v[2]), Abs(v[3])))
    IN  IF g = 0 THEN v ELSE [i \in 1..3 |-> v[i] \div g]

\* Transform::from_translation(eye).looking_at(eye + look_vector, up)
eye_look_at_target_transform(eye, target, up) ==
    LET look_vector == normalize(Vec3Sub(target, eye))
    IN  [translation |-> eye, forward |-> look_vector, up |-> up]

\* impl From<LookTransform> for Transform
TransformFrom(t) ==
    eye_look_at_target_transform(t.eye, t.target, UnwrapOr(t.up, Vec3Y))

\* ---------------------------------------------------------------- Smoother
Smoother_new(lag_weight) ==
    [lag_weight |-> lag_weight, lerp_tfm |-> None, enabled |-> TRUE]

is_enabled(self) == self.enabled

current_lerp_tfm(self) == self.lerp_tfm

reset(self) == [self EXCEPT !.lerp_tfm = None]

set_enabled(self, enabled) ==
    LET s == [self EXCEPT !.enabled = enabled]
    IN  IF s.enabled THEN reset(s) ELSE s

set_lag_weight(self, lag_weight) == [self EXCEPT !.lag_weight = lag_weight]

\* a bug: only the upper bound is asserted
lag_weight_asserts_upper_only(self) == self.lag_weight < Unit

\* the two debug_assert! of smooth_transform
lag_weight_asserts(self) == 0 <= self.lag_weight /\ self.lag_weight < Unit

\* a bug: a missing new scale is replaced by the old one
smooth_scale_keeping_old(old_scale, new_scale, lag_weight, lead_weight) ==
    IF IsSome(old_scale) /\ IsSome(new_scale)
    THEN Some(F32Add(F32Mul(Unwrap(old_scale), lag_weight),
                     F32Mul(Unwrap(new_scale), lead_weight)))
    ELSE old_scale

\* a bug: a prior without a scale takes the scale of the input
smooth_scale_taking_new(old_scale, new_scale, lag_weight, lead_weight) ==
    IF IsSome(old_scale) /\ IsSome(new_scale)
    THEN Some(F32Add(F32Mul(Unwrap(old_scale), lag_weight),
                     F32Mul(Unwrap(new_scale), lead_weight)))
    ELSE new_scale

\* the match on (old_lerp_tfm.scale, new_tfm.scale) of smooth_transform
smooth_scale(old_scale, new_scale, lag_weight, lead_weight) ==
    IF IsSome(old_scale) /\ IsSome(new_scale)
    THEN Some(F32Add(F32Mul(Unwrap(old_scale), lag_weight),
                     F32Mul(Unwrap(new_scale), lead_weight)))
    ELSE None

\* a bug: the two weights swapped
smooth_vec3_swapped(old, new, lag_weight, lead_weight) ==
    Vec3Add(Vec3Scale(old, lead_weight), Vec3Scale(new, lag_weight))

\* old * self.lag_weight + new * lead_weight, of eye and of target
smooth_vec3(old, new, lag_weight, lead_weight) ==
    Vec3Add(Vec3Scale(old, lag_weight), Vec3Scale(new, lead_weight))

\* smooth_transform past its assertions: the smoother afterwards and the
\* LookTransform returned
smooth_transform(self, new_tfm) ==
    LET old_lerp_tfm == UnwrapOr(self.lerp_tfm, new_tfm)
        lead_weight == F32Sub(Unit, self.lag_weight)
        scale == smooth_scale(old_lerp_tfm.scale, new_tfm.scale,
                              self.lag_weight, lead_weight)
        lerp_tfm ==
            LookTransform(
                smooth_vec3(old_lerp_tfm.eye, new_tfm.eye, self.lag_weight, lead_weight),
                smooth_vec3(old_lerp_tfm.target, new_tfm.target,
                            self.lag_weight, lead_weight),
                new_tfm.up,
                scale)
    IN  [self |-> [self EXCEPT !.lerp_tfm = Some(lerp_tfm)], ret |-> lerp_tfm]

\* ---------------------------------------------------------------- systems
\* a bug: the enabled flag is not looked at
look_transform_system_ignoring_enabled(debug, look, scene, smoother_opt) ==
    IF IsSome(smoother_opt)
    THEN IF debug /\ ~lag_weight_asserts(Unwrap(smoother_opt))
         THEN [panicked |-> TRUE, scene |-> scene, smoother |-> smoother_opt]
         ELSE LET r == smooth_transform(Unwrap(smoother_opt), look)
              IN  [panicked |-> FALSE,
                   scene |-> TransformFrom(r.ret),
                   smoother |-> Some(r.self)]
    ELSE [panicked |-> FALSE, scene |-> scene, smoother |-> smoother_opt]

\* one camera of look_transform_system's query
look_transform_system(debug, look, scene, smoother_opt) ==
    IF IsSome(smoother_opt) /\ Unwrap(smoother_opt).enabled
    THEN IF debug /\ ~lag_weight_asserts(Unwrap(smoother_opt))
         THEN [panicked |-> TRUE, scene |-> scene, smoother |-> smoother_opt]
         ELSE LET r == smooth_transform(Unwrap(smoother_opt), look)
              IN  [panicked |-> FALSE,
                   scene |-> TransformFrom(r.ret),
                   smoother |-> Some(r.self)]
    ELSE [panicked |-> FALSE, scene |-> scene, smoother |-> smoother_opt]

\* smoother.current_lerp_tfm().and_then(|latest| latest.scale)
latest_scale(self) ==
    IF IsSome(current_lerp_tfm(self))
    THEN Unwrap(current_lerp_tfm(self)).scale
    ELSE None

Perspective == <<"Perspective">>
Orthographic(o) == <<"Orthographic", o>>
OrthographicProjection(scale) == [scale |-> scale]

\* one camera of apply_look_transform_scale_orthographic's query (a camera
\* with a Smoother and a Projection or an OrthographicProjection)
apply_look_transform_scale_orthographic(self, p, o) ==
    IF is_enabled(self) /\ IsSome(latest_scale(self))
    THEN LET scale == Unwrap(latest_scale(self))
         IN  IF IsSome(p)
             THEN IF Unwrap(p)[1] = "Orthographic"
                  THEN [proj |-> Some(Orthographic([Unwrap(p)[2] EXCEPT !.scale = scale])),
                        orth |-> o]
                  ELSE [proj |-> p, orth |-> o]
             ELSE IF IsSome(o)
                  THEN [proj |-> p, orth |-> Some([Unwrap(o) EXCEPT !.scale = scale])]
                  ELSE [proj |-> p, orth |-> o]
    ELSE [proj |-> p, orth |-> o]

\* one camera of apply_look_transform_scale_custom_projection's query
apply_look_transform_scale_custom_projection(self, c) ==
    IF is_enabled(self) /\ IsSome(latest_scale(self))
    THEN [c EXCEPT !.scale = Unwrap(latest_scale(self))]
    ELSE c

\* ---------------------------------------------------------------- CeilingProjection
\* Rect::new(x0, y0, x1, y1): the rectangle spanned by two corners
Min(a, b) == IF a <= b THEN a ELSE b
Max(a, b) == IF a >= b THEN a ELSE b
RectNew(x0, y0, x1, y1) ==
    [min |-> <<Min(x0, x1), Min(y0, y1)>>, max |-> <<Max(x0, x1), Max(y0, y1)>>]

\* the (projection_width, projection_height) of CeilingProjection::update
projection_size(scaling_mode, width, height) ==
    CASE scaling_mode[1] = "WindowSize" ->
            <<F32Div(width, scaling_mode[2]), F32Div(height, scaling_mode[2])>>
      [] scaling_mode[1] = "AutoMin" ->
            LET min_width == scaling_mode[2]
                min_height == scaling_mode[3]
            IN  IF F32Mul(width, min_height) > F32Mul(min_width, height)
                THEN <<F32Div(F32Mul(width, min_height), height), min_height>>
                ELSE <<min_width, F32Div(F32Mul(height, min_width), width)>>
      [] scaling_mode[1] = "AutoMax" ->
            LET max_width == scaling_mode[2]
                max_height == scaling_mode[3]
            IN  IF F32Mul(width, max_height) < F32Mul(max_width, height)
                THEN <<F32Div(F32Mul(width, max_height), height), max_height>>
                ELSE <<max_width, F32Div(F32Mul(height, max_width), width)>>
      [] scaling_mode[1] = "FixedVertical" ->
            <<F32Div(F32Mul(width, scaling_mode[2]), height), scaling_mode[2]>>
      [] scaling_mode[1] = "FixedHorizontal" ->
            <<scaling_mode[2], F32Div(F32Mul(height, scaling_mode[2]), width)>>
      [] scaling_mode[1] = "Fixed" ->
            <<scaling_mode[2], scaling_mode[3]>>

\* CeilingProjection::update
update(self, width, height) ==
    LET size == projection_size(self.scaling_mode, width, height)
        projection_width == size[1]
        projection_height == size[2]
        origin_x == F32Mul(projection_width, self.viewport_origin[1])
        origin_y == F32Mul(projection_height, self.viewport_origin[2])
    IN  [self EXCEPT !.area =
            RectNew(F32Mul(self.scale, F32Neg(origin_x)),
                    F32Mul(self.scale, F32Neg(origin_y)),
                    F32Mul(self.scale, F32Sub(projection_width, origin_x)),
                    F32Mul(self.scale, F32Sub(projection_height, origin_y)))]

\* impl Default for CeilingProjection
CeilingProjectionDefault ==
    [near |-> 0,
     far |-> Fl(1000 * Unit, 1),
     viewport_origin |-> <<Unit \div 2, Unit \div 2>>,
     scaling_mode |-> <<"WindowSize", Unit>>,
     scale |-> Unit,
     area |-> RectNew(-Unit, -Unit, Unit, Unit)]

\* ---------------------------------------------------------------- inputs
\* 0.0, 0.9 as an f32 literal, and two weights outside [0, 1): 1.0 and -0.125
LagWeights == {0, Fl(9 * Unit, 10), Unit, -(Unit \div 8)}

\* what the controllers write: an eye at the origin looking at (1.25, 0, 0)
\* without up and scale, and the eye (10, 0, 0) looking at (1.25, 10, 0) with
\* an up vector and the scales 5 and 1
LookTransforms ==
    { LookTransform(Vec3Zero, <<Unit + Unit \div 4, 0, 0>>, None, None),
      LookTransform(<<10 * Unit, 0, 0>>, <<Unit + Unit \div 4, 10 * Unit, 0>>,
                    Some(Vec3Y), Some(5 * Unit)),
      LookTransform(<<10 * Unit, 0, 0>>, <<Unit + Unit \div 4, 10 * Unit, 0>>,
                    Some(Vec3Y), Some(Unit)) }

\* the projection components a camera entity is spawned with
Cameras ==
    { [proj |-> Some(Orthographic(OrthographicProjection(5 * Unit))),
       orth |-> None, ceiling |-> None],
      [proj |-> None,
       orth |-> Some(OrthographicProjection(5 * Unit)), ceiling |-> None],
      [proj |-> Some(Perspective),
       orth |-> Some(OrthographicProjection(5 * Unit)), ceiling |-> None],
      [proj |-> None, orth |-> None,
       ceiling |-> Some([CeilingProjectionDefault EXCEPT
                            !.scale = 5 * Unit,
                            !.scaling_mode = <<"FixedVertical", 2 * Unit>>])] }

\* the systems of a frame: look_transform_system and the two that write the
\* smoothed scale to a projection
ScaleSystems == {"orthographic", "custom"}
Systems == {"look_transform"} \cup ScaleSystems

\* a bug: the scale systems are added without an ordering
without_ordering(sys, todo) == sys \in todo

\* .after(LookTransformSystem), .after(LookTransformSet): whether the
\* scheduler may run system sys when the systems in todo have not run yet
after_look_transform(sys, todo) ==
    sys \in ScaleSystems => "look_transform" \notin todo

\* ---------------------------------------------------------------- the app
Init ==
    /\ debug_assertions \in BOOLEAN
    /\ panicked = FALSE
    /\ look_transform \in LookTransforms
    /\ smoother \in {None} \cup {Some(Smoother_new(w)) : w \in LagWeights}
    /\ scene_transform =
           eye_look_at_target_transform(<<-2 * Unit, 5 * Unit, 5 * Unit>>, Vec3Zero, Vec3Y)
    /\ \E cam \in Cameras :
           /\ proj = cam.proj
           /\ orth = cam.orth
           /\ ceiling = cam.ceiling
    /\ viewport = None
    /\ pending = {}

\* between two frames, where the controllers act
Running == ~panicked /\ pending = {}

\* the systems left to run in the frame, a new one when the last is over
Todo == IF pending = {} THEN Systems ELSE pending

MayRun(sys) == ~panicked /\ sys \in Todo /\ after_look_transform(sys, Todo)

\* a controller writes the LookTransform component
SetLookTransform ==
    /\ Running
    /\ \E t \in LookTransforms : look_transform' = t
    /\ look_transform' # look_transform
    /\ UNCHANGED <<debug_assertions, panicked, smoother, scene_transform,
                   proj, orth, ceiling, viewport, pending>>

SetEnabled ==
    /\ Running
    /\ IsSome(smoother)
    /\ \E b \in BOOLEAN : smoother' = Some(set_enabled(Unwrap(smoother), b))
    /\ UNCHANGED <<debug_assertions, panicked, look_transform, scene_transform,
                   proj, orth, ceiling, viewport, pending>>

SetLagWeight ==
    /\ Running
    /\ IsSome(smoother)
    /\ \E w \in LagWeights : smoother' = Some(set_lag_weight(Unwrap(smoother), w))
    /\ UNCHANGED <<debug_assertions, panicked, look_transform, scene_transform,
                   proj, orth, ceiling, viewport, pending>>

Reset ==
    /\ Running
    /\ IsSome(smoother)
    /\ smoother' = Some(reset(Unwrap(smoother)))
    /\ UNCHANGED <<debug_assertions, panicked, look_transform, scene_transform,
                   proj, orth, ceiling, viewport, pending>>

LookTransformSystem ==
    /\ MayRun("look_transform")
    /\ LET r == look_transform_system(debug_assertions, look_transform,
                                      scene_transform, smoother)
       IN  /\ panicked' = r.panicked
           /\ scene_transform' = r.scene
           /\ smoother' = r.smoother
           /\ pending' = IF r.panicked THEN pending ELSE Todo \ {"look_transform"}
    /\ UNCHANGED <<debug_assertions, look_transform, proj, orth, ceiling, viewport>>

ApplyLookTransformScaleOrthographic ==
    /\ MayRun("orthographic")
    /\ pending' = Todo \ {"orthographic"}
    /\ IF IsSome(smoother) /\ (IsSome(proj) \/ IsSome(orth))
       THEN LET r == apply_look_transform_scale_orthographic(Unwrap(smoother), proj, orth)
            IN  proj' = r.proj /\ orth' = r.orth
       ELSE UNCHANGED <<proj, orth>>
    /\ UNCHANGED <<debug_assertions, panicked, look_transform, smoother,
                   scene_transform, ceiling, viewport>>

ApplyLookTransformScaleCustomProjection ==
    /\ MayRun("custom")
    /\ pending' = Todo \ {"custom"}
    /\ IF IsSome(smoother) /\ IsSome(ceiling)
       THEN ceiling' = Some(apply_look_transform_scale_custom_projection(
                                Unwrap(smoother), Unwrap(ceiling)))
       ELSE UNCHANGED ceiling
    /\ UNCHANGED <<debug_assertions, panicked, look_transform, smoother,
                   scene_transform, proj, orth, viewport>>

Next ==
    \/ SetLookTransform
    \/ SetEnabled
    \/ SetLagWeight
    \/ Reset
    \/ LookTransformSystem
    \/ ApplyLookTransformScaleOrthographic
    \/ ApplyLookTransformScaleCustomProjection

Spec == Init /\ [][Next]_vars

\* ---------------------------------------------------------------- CeilingProjection::update alone
ScalingModes ==
    { <<"WindowSize", 2 * Unit>>,
      <<"AutoMin", 4 * Unit, 3 * Unit>>,
      <<"AutoMax", 4 * Unit, 3 * Unit>>,
      <<"FixedVertical", 2 * Unit>>,
      <<"FixedHorizontal", 2 * Unit>>,
      <<"Fixed", 4 * Unit, 3 * Unit>> }

Widths == {3 * Unit, 4 * Unit, 6 * Unit, 8 * Unit}
Heights == {2 * Unit, 3 * Unit, 4 * Unit}

InitCeiling ==
    /\ debug_assertions = FALSE
    /\ panicked = FALSE
    /\ look_transform = LookTransform(<<-2 * Unit, 5 * Unit, 5 * Unit>>, Vec3Zero,
                                      Some(Vec3Y), Some(5 * Unit))
    /\ smoother = Some(Smoother_new(Fl(9 * Unit, 10)))
    /\ scene_transform =
           eye_look_at_target_transform(<<-2 * Unit, 5 * Unit, 5 * Unit>>, Vec3Zero, Vec3Y)
    /\ proj = None
    /\ orth = None
    /\ \E m \in ScalingModes, sc \in {Unit, 5 * Unit},
          o \in {<<Unit \div 2, Unit \div 2>>, <<0, 0>>} :
           ceiling = Some([CeilingProjectionDefault EXCEPT
                              !.scaling_mode = m, !.scale = sc, !.viewport_origin = o])
    /\ viewport = None
    /\ pending = {}

\* camera_system hands the viewport's size to the projection
CeilingUpdate ==
    /\ IsSome(ceiling)
    /\ \E width \in Widths, height \in Heights :
           /\ ceiling' = Some(update(Unwrap(ceiling), width, height))
           /\ viewport' = Some(<<width, height>>)
    /\ UNCHANGED <<debug_assertions, panicked, look_transform, smoother,
                   scene_transform, proj, orth, pending>>

NextCeiling == CeilingUpdate

SpecCeiling == InitCeiling /\ [][NextCeiling]_vars

\* ---------------------------------------------------------------- properties
InRange(w) == 0 <= w /\ w < Unit

\* a step of look_transform_system in which smooth_transform runs to its end
LookStep == ~panicked /\ "look_transform" \in Todo /\ pending' = Todo \ {"look_transform"}

SmoothStep ==
    /\ LookStep
    /\ IsSome(smoother)
    /\ Unwrap(smoother).enabled
    /\ ~panicked'

\* a step of one of the two systems ordered after look_transform_system
ScaleStep == ~panicked /\ \E sys \in ScaleSystems : sys \in Todo /\ pending' = Todo \ {sys}

LagWeight == Unwrap(smoother).lag_weight
Prior == Unwrap(smoother).lerp_tfm
\* the prior the blend uses
Old == UnwrapOr(Prior, look_transform)
\* what the smoother stores in the step
Stored == Unwrap(Unwrap(smoother').lerp_tfm)

Between(a, b, x) == Min(a, b) <= x /\ x <= Max(a, b)

Dist2(u, v) ==
    (u[1] - v[1]) * (u[1] - v[1]) + (u[2] - v[2]) * (u[2] - v[2])
        + (u[3] - v[3]) * (u[3] - v[3])

Blend(old, new, w) == F32Add(F32Mul(old, w), F32Mul(new, F32Sub(Unit, w)))
Vec3Blend(old, new, w) == [i \in 1..3 |-> Blend(old[i], new[i], w)]

\* C1: with lag_weight in [0,1), the smooth_transform call that finds no
\* prior (the first after Smoother::new, reset() or set_enabled(true))
\* returns exactly its input: eye, target, up and scale.
C1_FirstSmoothReturnsInput ==
    [][(SmoothStep /\ InRange(LagWeight) /\ Prior = None)
          => /\ Stored = look_transform
             /\ scene_transform' = TransformFrom(look_transform)]_vars

\* C2: with lag_weight in [0,1), every coordinate of the smoothed eye and
\* target lies between the prior's (the input's when there is none) and the
\* input's, inclusive.
C2_NoOvershoot ==
    [][(SmoothStep /\ InRange(LagWeight))
          => \A i \in 1..3 :
                /\ Between(Old.eye[i], look_transform.eye[i], Stored.eye[i])
                /\ Between(Old.target[i], look_transform.target[i], Stored.target[i])]_vars

\* C3: smoothing towards a steady input X with lag_weight in [0,1): with no
\* prior the call returns the eye and target of X exactly, and with a prior
\* the distance of the smoothed eye and target to those of X does not grow.
C3_SteadyInputConverges ==
    [][(SmoothStep /\ InRange(LagWeight))
          => IF Prior = None
             THEN Stored.eye = look_transform.eye /\ Stored.target = look_transform.target
             ELSE /\ Dist2(Stored.eye, look_transform.eye)
                        <= Dist2(Old.eye, look_transform.eye)
                  /\ Dist2(Stored.target, look_transform.target)
                        <= Dist2(Old.target, look_transform.target)]_vars

\* the blend of C4, with the f32 rounding of each product and sum
BlendHolds ==
    (SmoothStep /\ Prior # None)
        => /\ Stored.eye = Vec3Blend(Old.eye, look_transform.eye, LagWeight)
           /\ Stored.target = Vec3Blend(Old.target, look_transform.target, LagWeight)
           /\ scene_transform' = TransformFrom(Stored)
           /\ current_lerp_tfm(Unwrap(smoother')) = Some(Stored)

\* the example of C4: lag_weight 0.9, prior eye (0,0,0), new eye (10,0,0)
ExampleStep ==
    /\ SmoothStep
    /\ Prior # None
    /\ LagWeight = Fl(9 * Unit, 10)
    /\ Old.eye = Vec3Zero
    /\ look_transform.eye = <<10 * Unit, 0, 0>>

\* C4 as stated: smooth_transform with a prior P and an input N returns and
\* stores eye = P.eye*lag + N.eye*(1 - lag), the same for target, and for
\* lag_weight 0.9, prior eye (0,0,0) and new eye (10,0,0) the eye is (1,0,0).
C4_BlendAndExample ==
    [][BlendHolds /\ (ExampleStep => Stored.eye = <<Unit, 0, 0>>)]_vars

\* C4 amended: the same blend, each product and sum rounded to f32, returned
\* and stored; in the example the eye is (10 * (1 - 0.9f32), 0, 0), which is
\* above (1,0,0) because the f32 nearest to 0.9 is below 0.9.
C4_BlendRounded ==
    [][BlendHolds
       /\ (ExampleStep
             => /\ Stored.eye = <<F32Mul(10 * Unit, F32Sub(Unit, Fl(9 * Unit, 10))), 0, 0>>
                /\ Stored.eye[1] > Unit)]_vars

C4_Witness ==
    /\ IsSome(smoother)
    /\ Unwrap(smoother).lag_weight = Fl(9 * Unit, 10)
    /\ pending = ScaleSystems
    /\ look_transform.eye = <<10 * Unit, 0, 0>>
    /\ IsSome(Unwrap(smoother).lerp_tfm)
    /\ Unwrap(Unwrap(smoother).lerp_tfm).eye =
           <<F32Mul(10 * Unit, F32Sub(Unit, Fl(9 * Unit, 10))), 0, 0>>

\* C5 as stated: construction and configuration reject a lag_weight outside
\* [0,1), so no Smoother ever holds one.
C5_LagWeightAlwaysInRange ==
    IsSome(smoother) => InRange(Unwrap(smoother).lag_weight)

\* C5 amended: Smoother::new and set_lag_weight store any lag_weight; only
\* smooth_transform checks it, and only in a build with debug assertions,
\* where a call with a lag_weight outside [0,1) panics and changes nothing.
\* A build without them smooths with whatever lag_weight is stored.
C5_RejectedBySmoothInDebug ==
    [][(IsSome(smoother) /\ Unwrap(smoother).enabled /\ (LookStep \/ panicked'))
          => /\ panicked' <=> (debug_assertions /\ ~InRange(LagWeight))
             /\ panicked' => (smoother' = smoother /\ scene_transform' = scene_transform)
             /\ ~panicked' => Unwrap(smoother').lerp_tfm # None]_vars

C5_Witness ==
    /\ panicked
    /\ debug_assertions
    /\ IsSome(smoother)
    /\ Unwrap(smoother).lag_weight = Unit
    /\ IsSome(Unwrap(smoother).lerp_tfm)

\* C6: the smoothed transform carries a scale exactly when the prior used
\* for the blend and the input both carry one, and then it is
\* scale_prev*lag_weight + scale_new*(1 - lag_weight); otherwise it has none.
C6_ScaleBlend ==
    [][SmoothStep
          => /\ IsSome(Stored.scale) <=> (IsSome(Old.scale) /\ IsSome(look_transform.scale))
             /\ IsSome(Stored.scale)
                   => Stored.scale = Some(Blend(Unwrap(Old.scale),
                                                Unwrap(look_transform.scale), LagWeight))]_vars

\* a scale blended from two different scales
C6_Witness ==
    /\ IsSome(smoother)
    /\ IsSome(latest_scale(Unwrap(smoother)))
    /\ Unwrap(latest_scale(Unwrap(smoother))) > Unit
    /\ Unwrap(latest_scale(Unwrap(smoother))) < 5 * Unit
    /\ InRange(Unwrap(smoother).lag_weight)

\* C7: for AutoMin the projection size is at least the minimum in both
\* dimensions, for AutoMax at most the maximum; in both modes it has the
\* viewport's aspect ratio and meets one of the two bounds with equality.
C7_AutoBounds ==
    (IsSome(ceiling) /\ IsSome(viewport))
        => LET mode == Unwrap(ceiling).scaling_mode
               width == Unwrap(viewport)[1]
               height == Unwrap(viewport)[2]
               size == projection_size(mode, width, height)
           IN  /\ mode[1] = "AutoMin"
                    => /\ size[1] >= mode[2]
                       /\ size[2] >= mode[3]
                       /\ size[1] * height = size[2] * width
                       /\ size[1] = mode[2] \/ size[2] = mode[3]
               /\ mode[1] = "AutoMax"
                    => /\ size[1] <= mode[2]
                       /\ size[2] <= mode[3]
                       /\ size[1] * height = size[2] * width
                       /\ size[1] = mode[2] \/ size[2] = mode[3]

\* the scale of every orthographic or custom projection of the camera
ProjectionScales ==
    (IF IsSome(proj) /\ Unwrap(proj)[1] = "Orthographic"
        THEN {Unwrap(proj)[2].scale} ELSE {})
    \cup (IF IsSome(orth) THEN {Unwrap(orth).scale} ELSE {})
    \cup (IF IsSome(ceiling) THEN {Unwrap(ceiling).scale} ELSE {})

C9_ProjectionScaleFollows ==
    (pending = {} /\ IsSome(smoother) /\ Unwrap(smoother).enabled
        /\ IsSome(latest_scale(Unwrap(smoother))))
        => \A sc \in ProjectionScales : sc = Unwrap(latest_scale(Unwrap(smoother)))

\* the projections apply_look_transform_scale_orthographic and
\* apply_look_transform_scale_custom_projection write: a standalone
\* OrthographicProjection only on a camera without a Projection component
SelectedProjectionScales ==
    (IF IsSome(proj) /\ Unwrap(proj)[1] = "Orthographic"
        THEN {Unwrap(proj)[2].scale} ELSE {})
    \cup (IF IsSome(orth) /\ ~IsSome(proj) THEN {Unwrap(orth).scale} ELSE {})
    \cup (IF IsSome(ceiling) THEN {Unwrap(ceiling).scale} ELSE {})

\* C9 amended: the same for the projection the scale systems select: the
\* Projection component when it is orthographic, the OrthographicProjection
\* component of a camera without a Projection component, the custom
\* projection.  In mid-frame the scale is the earlier frame's until the
\* system after look_transform_system has run.
C9_SelectedProjectionScaleFollows ==
    (pending = {} /\ IsSome(smoother) /\ Unwrap(smoother).enabled
        /\ IsSome(latest_scale(Unwrap(smoother))))
        => \A sc \in SelectedProjectionScales : sc = Unwrap(latest_scale(Unwrap(smoother)))

\* the end of a frame that smoothed a scale other than the projection's first
C9_Witness ==
    /\ pending = {}
    /\ IsSome(smoother)
    /\ Unwrap(smoother).enabled
    /\ IsSome(latest_scale(Unwrap(smoother)))
    /\ SelectedProjectionScales # {}
    /\ SelectedProjectionScales = {Unwrap(latest_scale(Unwrap(smoother)))}
    /\ Unwrap(latest_scale(Unwrap(smoother))) \notin {Unit, 5 * Unit}

\* C10: once an input without a scale has been smoothed, every smoothed
\* transform has no scale, whatever the inputs carry, until the prior is
\* cleared; in that stretch the scale systems leave the projections alone.
C10_ScaleAbsenceSticky ==
    [][/\ (SmoothStep /\ ~IsSome(look_transform.scale)) => ~IsSome(Stored.scale)
       /\ (IsSome(smoother) /\ IsSome(Unwrap(smoother).lerp_tfm)
              /\ ~IsSome(Unwrap(Unwrap(smoother).lerp_tfm).scale)
              /\ IsSome(Unwrap(smoother').lerp_tfm))
          => ~IsSome(Unwrap(Unwrap(smoother').lerp_tfm).scale)
       /\ (ScaleStep /\ IsSome(smoother) /\ ~IsSome(latest_scale(Unwrap(smoother))))
          => UNCHANGED <<proj, orth, ceiling>>]_vars

\* after a frame that smoothed an input with a scale (the only ones with an
\* up vector) onto a prior without one: the smoothed transform has no scale
\* and the projection keeps its first scale
C10_Witness ==
    /\ pending = {}
    /\ IsSome(smoother)
    /\ Unwrap(smoother).enabled
    /\ look_transform.scale = Some(Unit)
    /\ IsSome(Unwrap(smoother).lerp_tfm)
    /\ Unwrap(Unwrap(smoother).lerp_tfm).up = Some(Vec3Y)
    /\ ~IsSome(Unwrap(Unwrap(smoother).lerp_tfm).scale)
    /\ SelectedProjectionScales = {5 * Unit}

====
